---- MODULE Spec2Model ----
(***************************************************************************)
(* State-machine model of generate_flowchart.py: the orchestration run     *)
(* started by the Generate button (on_generate -> generate_flowchart ->    *)
(* generate_mermaid_code -> save_and_generate_flowchart), one worker       *)
(* thread per click, and the fence-stripping text transform applied to the *)
(* inference response.                                                     *)
(*                                                                         *)
(* Texts are sequences of one-character strings (a path component or an    *)
(* exception text is one token).  An f-string is a record: its literal     *)
(* head and the value formatted into it.                                   *)
(***************************************************************************)
EXTENDS Integers, Sequences, FiniteSets, TLC

\* ------------------------------------------------------------------ bounds
\* Worker threads (clicks of Generate that start a run) in one behaviour.
MaxRuns == 2
\* Tokens concatenated into an input text of the sanitize specification.
MaxTok == 4

Runs == 1 .. MaxRuns

\* ------------------------------------------------------------------- texts
Whitespace == {" ", "\n", "\t", "\r"}

\* The backtick character (U+0060), which a TLA+ string literal cannot hold.
Backtick == "U+0060"

Fence == <<Backtick, Backtick, Backtick>>

FenceMermaid == Fence \o <<"m", "e", "r", "m", "a", "i", "d">>

\* s.startswith(p)
IsPrefix(p, s) == Len(p) <= Len(s) /\ SubSeq(s, 1, Len(p)) = p

\* str.lstrip() / str.rstrip() / str.strip() with no argument
RECURSIVE lstrip(_)
lstrip(s) ==
    IF s # <<>> /\ Head(s) \in Whitespace THEN lstrip(Tail(s)) ELSE s

RECURSIVE rstrip(_)
rstrip(s) ==
    IF s # <<>> /\ s[Len(s)] \in Whitespace
    THEN rstrip(SubSeq(s, 1, Len(s) - 1))
    ELSE s

strip(s) == rstrip(lstrip(s))

\* A replace that stops after the first occurrence (str.replace(old, new, 1)).
RECURSIVE replace_first(_, _, _)
replace_first(s, old, new) ==
    IF s = <<>> THEN <<>>
    ELSE IF IsPrefix(old, s) THEN new \o SubSeq(s, Len(old) + 1, Len(s))
    ELSE <<Head(s)>> \o replace_first(Tail(s), old, new)

\* str.replace(old, new): every non-overlapping occurrence, left to right,
\* in one pass (old is never empty here).
RECURSIVE replace(_, _, _)
replace(s, old, new) ==
    IF s = <<>> THEN <<>>
    ELSE IF IsPrefix(old, s)
         THEN new \o replace(SubSeq(s, Len(old) + 1, Len(s)), old, new)
         ELSE <<Head(s)>> \o replace(Tail(s), old, new)

\* Whether pat occurs in s (pat in s).
Contains(s, pat) ==
    \E i \in 1 .. (Len(s) - Len(pat) + 1) : SubSeq(s, i, i + Len(pat) - 1) = pat

\* The fence stripping with only the first occurrence of each marker removed.
sanitize_first_only(content) ==
    strip(replace_first(replace_first(strip(content), FenceMermaid, <<>>),
                        Fence, <<>>))

\* generate_mermaid_code, lines 67-68: what is done to message.content.
sanitize(content) ==
    strip(replace(replace(strip(content), FenceMermaid, <<>>), Fence, <<>>))

\* ------------------------------------------------------------ environment
None == <<>>

Some(x) == <<x>>

\* platform.system(): the hosts the program may run on
Systems == {"Windows", "Linux"}

\* find_mmdc_path
find_mmdc_path(sys) ==
    IF sys = "Windows"
    THEN <<"~", "\\", "AppData", "\\", "Roaming", "\\", "npm", "\\",
           "mmdc.cmd">>
    ELSE <<"mmdc">>

\* tempfile.gettempdir()
gettempdir(sys) ==
    IF sys = "Windows" THEN <<"C", ":", "\\", "Temp">> ELSE <<"/", "tmp">>

\* os.path.join(a, b) for a file name b without drive or root: posixpath on
\* Linux, ntpath on Windows.
os_path_join(sys, a, b) ==
    IF sys = "Windows"
    THEN IF a # <<>> /\ a[Len(a)] \notin {"\\", "/", ":"}
         THEN a \o <<"\\">> \o b
         ELSE a \o b
    ELSE IF a = <<>> \/ a[Len(a)] = "/"
         THEN a \o b
         ELSE a \o <<"/">> \o b

\* line 83: the transient file's path, the same in every run
mmd_file_path(sys) ==
    os_path_join(sys, gettempdir(sys), <<"temp_flowchart.mmd">>)

\* line 84: f"flowchart.{output_format}" under the output directory
output_path(sys, output_format, dir) ==
    os_path_join(sys, dir, <<"flowchart", ".", output_format>>)

\* line 181: the values of the format Combobox
Formats == {"png", "svg", "pdf"}

\* line 185: os.getcwd(), the directory the program is started in
Dirs(sys) ==
    IF sys = "Windows"
    THEN {<<"C", ":", "\\", "o">>}
    ELSE {<<"/">>, <<"/", "o">>}

\* What the description Text widget may hold when Generate is clicked.
Descriptions == {<<" ", "\n">>, <<" ", "a", "\n">>}

\* message.content of the completion the inference service returns.
Responses ==
    { FenceMermaid \o <<"\n", "A", "\n">> \o Fence,
      <<"B", "\n">>,
      FenceMermaid \o <<"\n">> \o Fence,
      <<" ">> }

\* A byte that is not valid UTF-8.
BadByte == "0xFF"

\* What the renderer process may leave: its exit code and the bytes on its
\* stdout and stderr pipes.
ReturnCodes == {0, 1}

StdoutBytes == {<<"o", "k", "\n">>, <<BadByte>>}

StderrBytes == {<<"b", "\r", "\n">>, <<BadByte>>}

\* subprocess.run(..., text=True, encoding="utf-8"): a pipe's bytes decoded
\* strictly, then universal newlines ("\r\n" and "\r" become "\n").
Decodable(bytes) == \A i \in 1 .. Len(bytes) : bytes[i] # BadByte

translate_newlines(bytes) ==
    replace(replace(bytes, <<"\r", "\n">>, <<"\n">>), <<"\r">>, <<"\n">>)

\* -------------------------------------------------------------- filesystem
\* os.path.exists(path), for a file of fs
FileExists(files, path) == \E f \in files : f[1] = path

\* the content of the file at path
FileContent(files, path) == (CHOOSE f \in files : f[1] = path)[2]

\* the file at path created or replaced, holding content
FilePut(files, path, content) ==
    {f \in files : f[1] # path} \cup {<<path, content>>}

\* check_mmdc_installed, as a predicate (its error box is shown by the
\* step that calls it)
check_mmdc_installed(files, mmdc_path) == FileExists(files, mmdc_path)

\* The renderer executable, when it is installed.
MmdcFile(sys) == <<find_mmdc_path(sys), <<"#!">>>>

MmdcNotFoundText ==
    "Mermaid CLI (mmdc) not found!\nInstall it using: npm install -g @mermaid-js/mermaid-cli"

\* ------------------------------------------------------------------- state
VARIABLES
    system,        \* platform.system() of the host
    output_dir,    \* the output directory StringVar (os.getcwd() at start)
    pc,            \* each worker thread's position
    req,           \* the thread's arguments (user_requirement, format, dir)
    code,          \* mermaid_code, once generate_mermaid_code returned it
    fs,            \* the files there are: a set of <<path, content>>
    status_label,  \* the text of the status Label
    progress,      \* whether the Progressbar is running
    shown,         \* the message boxes each run has shown, in order
    inferCalls,    \* calls of chat.completions.create by each run
    launches,      \* renderer subprocesses launched by each run
    wrote,         \* whether the run has opened the transient file to write
    startedBar,    \* whether the run has called progress_bar.start()
    argv,          \* the command line of the run's renderer subprocess
    rendered,      \* the input file's content when the renderer was launched
    proc,          \* what the run's renderer left: exit code, stdout, stderr
    sanIn,         \* sanitize specification: the input text
    sanOut         \* sanitize specification: sanitize applied once, twice

vars ==
    <<system, output_dir, pc, req, code, fs, status_label, progress, shown,
      inferCalls, launches, wrote, startedBar, argv, rendered, proc, sanIn,
      sanOut>>

sanVars == <<sanIn, sanOut>>

\* messagebox.showinfo / showwarning / showerror(title, f"{head}{arg}")
Dialog(kind, title, head, arg) ==
    [kind |-> kind, title |-> title, head |-> head, arg |-> arg]

\* status_label.config(text=f"{head}{arg}")
LabelText(head, arg) == [head |-> head, arg |-> arg]

InitRuns ==
    /\ pc = [r \in Runs |-> "idle"]
    /\ req = [r \in Runs |-> None]
    /\ code = [r \in Runs |-> None]
    /\ fs \in {{}, {MmdcFile(system)}}
    /\ status_label = LabelText("", <<>>)
    /\ progress = FALSE
    /\ shown = [r \in Runs |-> <<>>]
    /\ inferCalls = [r \in Runs |-> 0]
    /\ launches = [r \in Runs |-> 0]
    /\ wrote = [r \in Runs |-> FALSE]
    /\ startedBar = [r \in Runs |-> FALSE]
    /\ argv = [r \in Runs |-> None]
    /\ rendered = [r \in Runs |-> None]
    /\ proc = [r \in Runs |-> None]

Init ==
    /\ system \in Systems
    /\ output_dir \in Dirs(system)
    /\ InitRuns
    /\ sanIn = <<>>
    /\ sanOut = <<>>

\* ------------------------------------------------------------ thread return
\* The thread's function returns: its locals are gone.
Return(r) ==
    /\ pc' = [pc EXCEPT ![r] = "done"]
    /\ req' = [req EXCEPT ![r] = None]
    /\ code' = [code EXCEPT ![r] = None]
    /\ argv' = [argv EXCEPT ![r] = None]
    /\ rendered' = [rendered EXCEPT ![r] = None]

Show(r, dialog) == shown' = [shown EXCEPT ![r] = Append(@, dialog)]

\* The next thread to be started: threads are numbered in the order of the
\* clicks that start them.
NextRun(r) == pc[r] = "idle" /\ \A q \in Runs : q < r => pc[q] # "idle"

\* -------------------------------------------------------------- on_generate
\* The Generate button's command.  An empty or whitespace-only description
\* gets a warning box and nothing else; otherwise a thread is started on
\* generate_flowchart with the widgets' values of that moment.
on_generate(text, output_format) ==
    IF strip(text) = <<>>
    THEN UNCHANGED vars
    ELSE /\ \E r \in Runs :
              /\ NextRun(r)
              /\ pc' = [pc EXCEPT ![r] = "start"]
              /\ req' = [req EXCEPT ![r] =
                           Some([user_requirement |-> strip(text),
                                 output_format |-> output_format,
                                 output_dir |-> output_dir])]
         /\ UNCHANGED <<system, output_dir, code, fs, status_label, progress,
                        shown, inferCalls, launches, wrote, startedBar, argv,
                        rendered, proc, sanVars>>

\* ------------------------------------------------------- generate_flowchart
\* No GROQ_API_KEY and nothing entered in the dialog.
ApiKeyMissing(r) ==
    /\ pc[r] = "start"
    /\ Show(r, Dialog("showwarning", "API Key Required",
                      "Please enter a valid Groq API key.", <<>>))
    /\ Return(r)
    /\ UNCHANGED <<system, output_dir, fs, status_label, progress, inferCalls,
                   launches, wrote, startedBar, proc, sanVars>>

\* Groq(api_key=api_key) raises.
ClientInitFails(r) ==
    /\ pc[r] = "start"
    /\ Show(r, Dialog("showerror", "Error",
                      "Failed to initialize Groq client.\n", <<"GroqError">>))
    /\ Return(r)
    /\ UNCHANGED <<system, output_dir, fs, status_label, progress, inferCalls,
                   launches, wrote, startedBar, proc, sanVars>>

\* The inference call raises, and the run goes on as if it had returned text.
InferenceFails_continues(r) ==
    /\ pc[r] = "start"
    /\ inferCalls' = [inferCalls EXCEPT ![r] = @ + 1]
    /\ Show(r, Dialog("showerror", "Error",
                      "Failed to generate Mermaid code.\n", <<"APIError">>))
    /\ pc' = [pc EXCEPT ![r] = "save"]
    /\ code' = [code EXCEPT ![r] = Some(<<"A">>)]
    /\ UNCHANGED <<system, output_dir, req, fs, status_label, progress,
                   launches, wrote, startedBar, argv, rendered, proc,
                   sanVars>>

\* The inference call raises, and is made again.
InferenceFails_retries(r) ==
    /\ pc[r] = "start"
    /\ inferCalls' = [inferCalls EXCEPT ![r] = @ + 1]
    /\ Show(r, Dialog("showerror", "Error",
                      "Failed to generate Mermaid code.\n", <<"APIError">>))
    /\ UNCHANGED <<system, output_dir, pc, req, code, fs, status_label,
                   progress, launches, wrote, startedBar, argv, rendered,
                   proc, sanVars>>

\* generate_mermaid_code: chat.completions.create raises; the error is shown
\* and None returned, which ends generate_flowchart.
InferenceFails(r) ==
    /\ pc[r] = "start"
    /\ inferCalls' = [inferCalls EXCEPT ![r] = @ + 1]
    /\ Show(r, Dialog("showerror", "Error",
                      "Failed to generate Mermaid code.\n", <<"APIError">>))
    /\ Return(r)
    /\ UNCHANGED <<system, output_dir, fs, status_label, progress, launches,
                   wrote, startedBar, proc, sanVars>>

\* generate_mermaid_code returns the sanitized completion; an empty one ends
\* generate_flowchart at "if mermaid_code:".
InferenceReturns(r, content) ==
    /\ pc[r] = "start"
    /\ inferCalls' = [inferCalls EXCEPT ![r] = @ + 1]
    /\ IF sanitize(content) = <<>>
       THEN /\ Return(r)
       ELSE /\ pc' = [pc EXCEPT ![r] = "save"]
            /\ code' = [code EXCEPT ![r] = Some(sanitize(content))]
            /\ UNCHANGED <<req, argv, rendered>>
    /\ UNCHANGED <<system, output_dir, fs, status_label, progress, shown,
                   launches, wrote, startedBar, proc, sanVars>>

\* ---------------------------------------------- save_and_generate_flowchart
\* lines 109-112: the except branch
ExceptBranch(r, e) ==
    /\ status_label' = LabelText("Failed to generate flowchart.", <<>>)
    /\ Show(r, Dialog("showerror", "Error",
                      "Failed to generate flowchart.\n", e))
    /\ Return(r)

\* line 87, open(mmd_file_path, "w"): the file is created, or cut to nothing
OpenForWriting(r) ==
    /\ fs' = FilePut(fs, mmd_file_path(system), <<>>)
    /\ wrote' = [wrote EXCEPT ![r] = TRUE]
    /\ pc' = [pc EXCEPT ![r] = "write"]

\* The renderer is found missing, the error is shown, and the function goes
\* on to write the transient file.
ToolMissing_ignored(r) ==
    /\ pc[r] = "save"
    /\ ~check_mmdc_installed(fs, find_mmdc_path(system))
    /\ Show(r, Dialog("showerror", "Error",
                      MmdcNotFoundText, <<>>))
    /\ OpenForWriting(r)
    /\ UNCHANGED <<system, output_dir, req, code, status_label, progress,
                   inferCalls, launches, startedBar, argv, rendered, proc,
                   sanVars>>

\* check_mmdc_installed(find_mmdc_path()) is False: nothing at that path.
ToolMissing(r) ==
    /\ pc[r] = "save"
    /\ ~check_mmdc_installed(fs, find_mmdc_path(system))
    /\ Show(r, Dialog("showerror", "Error",
                      MmdcNotFoundText, <<>>))
    /\ Return(r)
    /\ UNCHANGED <<system, output_dir, fs, status_label, progress, inferCalls,
                   launches, wrote, startedBar, proc, sanVars>>

\* The renderer is there; opening the transient file raises.
OpenFails(r) ==
    /\ pc[r] = "save"
    /\ check_mmdc_installed(fs, find_mmdc_path(system))
    /\ ExceptBranch(r, <<"PermissionError">>)
    /\ UNCHANGED <<system, output_dir, fs, progress, inferCalls, launches,
                   wrote, startedBar, proc, sanVars>>

\* The renderer is there; the transient file is opened for writing.
OpenTruncates(r) ==
    /\ pc[r] = "save"
    /\ check_mmdc_installed(fs, find_mmdc_path(system))
    /\ OpenForWriting(r)
    /\ UNCHANGED <<system, output_dir, req, code, status_label, progress,
                   shown, inferCalls, launches, startedBar, argv, rendered,
                   proc, sanVars>>

\* lines 88-92: the text is written and the file closed, the status set and
\* the progress bar started.
WriteAndStart(r) ==
    /\ pc[r] = "write"
    /\ fs' = FilePut(fs, mmd_file_path(system), code[r][1])
    /\ status_label' = LabelText("Generating flowchart...", <<>>)
    /\ progress' = TRUE
    /\ startedBar' = [startedBar EXCEPT ![r] = TRUE]
    /\ pc' = [pc EXCEPT ![r] = "launch"]
    /\ UNCHANGED <<system, output_dir, req, code, shown, inferCalls, launches,
                   wrote, argv, rendered, proc, sanVars>>

\* subprocess.run cannot start the renderer (not an executable, not on PATH).
LaunchFails(r) ==
    /\ pc[r] = "launch"
    /\ ExceptBranch(r, <<"OSError">>)
    /\ UNCHANGED <<system, output_dir, fs, progress, inferCalls, launches,
                   wrote, startedBar, proc, sanVars>>

\* lines 95-96: the renderer's command line
mmdc_argv(sys, output_format, dir) ==
    <<find_mmdc_path(sys), "-i", mmd_file_path(sys),
      "-o", output_path(sys, output_format, dir),
      "-b", "transparent">>

\* subprocess.run starts the renderer, which reads its input file.
Launch(r) ==
    /\ pc[r] = "launch"
    /\ launches' = [launches EXCEPT ![r] = @ + 1]
    /\ argv' = [argv EXCEPT ![r] =
                  Some(mmdc_argv(system, req[r][1].output_format,
                                 req[r][1].output_dir))]
    /\ rendered' = [rendered EXCEPT ![r] =
                      IF FileExists(fs, mmd_file_path(system))
                      THEN Some(FileContent(fs, mmd_file_path(system)))
                      ELSE None]
    /\ pc' = [pc EXCEPT ![r] = "wait"]
    /\ UNCHANGED <<system, output_dir, req, code, fs, status_label, progress,
                   shown, inferCalls, wrote, startedBar, proc, sanVars>>

\* line 108: {result.stderr}
failure_diagnostic(result) == result.stderr

\* lines 95-108: the renderer exits; its pipes are decoded and the outcome
\* is reported.  A pipe that does not decode raises out of subprocess.run.
RendererExits(r, returncode, out, err) ==
    /\ pc[r] = "wait"
    /\ proc' = [proc EXCEPT ![r] =
                  Some([returncode |-> returncode, stdout |-> out,
                        stderr |-> err])]
    /\ IF Decodable(out) /\ Decodable(err)
       THEN LET result == [returncode |-> returncode,
                           stdout |-> translate_newlines(out),
                           stderr |-> translate_newlines(err)]
                path == output_path(system, req[r][1].output_format,
                                    req[r][1].output_dir)
            IN  /\ progress' = FALSE
                /\ IF result.returncode = 0
                   THEN /\ status_label' =
                               LabelText("Flowchart saved as: ", path)
                        /\ Show(r, Dialog("showinfo", "Success",
                                          "Flowchart saved as: ", path))
                   ELSE /\ status_label' =
                               LabelText("Failed to generate flowchart.", <<>>)
                        /\ Show(r, Dialog("showerror", "Error",
                                          "Failed to generate flowchart.\n",
                                          failure_diagnostic(result)))
                /\ Return(r)
       ELSE /\ ExceptBranch(r, <<"UnicodeDecodeError">>)
            /\ UNCHANGED progress
    /\ UNCHANGED <<system, output_dir, fs, inferCalls, launches, wrote,
                   startedBar, sanVars>>

\* ------------------------------------------------------------ specification
Next ==
    \/ \E text \in Descriptions, output_format \in Formats :
           on_generate(text, output_format)
    \/ \E r \in Runs : ApiKeyMissing(r)
    \/ \E r \in Runs : ClientInitFails(r)
    \/ \E r \in Runs : InferenceFails(r)
    \/ \E r \in Runs, content \in Responses : InferenceReturns(r, content)
    \/ \E r \in Runs : ToolMissing(r)
    \/ \E r \in Runs : OpenFails(r)
    \/ \E r \in Runs : OpenTruncates(r)
    \/ \E r \in Runs : WriteAndStart(r)
    \/ \E r \in Runs : LaunchFails(r)
    \/ \E r \in Runs : Launch(r)
    \/ \E r \in Runs, returncode \in ReturnCodes, out \in StdoutBytes,
          err \in StderrBytes : RendererExits(r, returncode, out, err)

Spec == Init /\ [][Next]_vars

\* ------------------------------------------- the sanitize specification
\* Input texts are concatenations of at most MaxTok of these pieces.
SanTokens ==
    { <<Backtick>>, <<Backtick, Backtick>>, Fence, FenceMermaid,
      <<"m", "e", "r", "m", "a", "i", "d">>, <<" ">>, <<"\n">>, <<"A">> }

RECURSIVE Flatten(_)
Flatten(ts) == IF ts = <<>> THEN <<>> ELSE Head(ts) \o Flatten(Tail(ts))

SanInputs ==
    { Flatten(ts) : ts \in UNION { [1 .. n -> SanTokens] : n \in 0 .. MaxTok } }

InitSanitize ==
    /\ system \in Systems
    /\ output_dir \in Dirs(system)
    /\ InitRuns
    /\ sanIn \in SanInputs
    /\ sanOut = <<>>

\* sanitize applied to the input, then to its own result.
ApplySanitize ==
    /\ Len(sanOut) < 2
    /\ sanOut' = Append(sanOut,
                        sanitize(IF sanOut = <<>> THEN sanIn
                                 ELSE sanOut[Len(sanOut)]))
    /\ UNCHANGED <<system, output_dir, pc, req, code, fs, status_label,
                   progress, shown, inferCalls, launches, wrote, startedBar,
                   argv, rendered, proc, sanIn>>

NextSanitize == ApplySanitize

SpecSanitize == InitSanitize /\ [][NextSanitize]_vars

\* ------------------------------------------------------------------ claims
ToolNotInstalledDialog == Dialog("showerror", "Error", MmdcNotFoundText, <<>>)

InferenceFailedDialog ==
    Dialog("showerror", "Error", "Failed to generate Mermaid code.\n",
           <<"APIError">>)

ApiKeyDialog ==
    Dialog("showwarning", "API Key Required",
           "Please enter a valid Groq API key.", <<>>)

ClientInitDialog ==
    Dialog("showerror", "Error", "Failed to initialize Groq client.\n",
           <<"GroqError">>)

HasShown(r, dialog) == \E i \in 1 .. Len(shown[r]) : shown[r][i] = dialog

MmdcInstalled == check_mmdc_installed(fs, find_mmdc_path(system))

\* The run had an API key: it did not end at the key warning.
KeyAvailable(r) == ~HasShown(r, ApiKeyDialog)

\* The order of a thread's positions.
Rank(p) ==
    CASE p = "idle" -> 0
      [] p = "start" -> 1
      [] p = "save" -> 2
      [] p = "write" -> 3
      [] p = "launch" -> 4
      [] p = "wait" -> 5
      [] p = "done" -> 6

\* C1: when the renderer executable is not at the resolved path, the render
\* step ends at once with the tool-not-installed error box: no run ever
\* opens the transient file for writing, no transient file exists, no
\* renderer subprocess is launched (so no output file is written), and a run
\* that leaves the render step has shown exactly that error and is done.
C1_ToolMissingShortCircuits ==
    /\ [](~MmdcInstalled =>
            \A r \in Runs :
                /\ pc[r] \notin {"write", "launch", "wait"}
                /\ ~wrote[r]
                /\ launches[r] = 0
                /\ argv[r] = None
                /\ proc[r] = None
                /\ ~FileExists(fs, mmd_file_path(system)))
    /\ [](\A r \in Runs :
            HasShown(r, ToolNotInstalledDialog) =>
                /\ ~MmdcInstalled
                /\ pc[r] = "done"
                /\ shown[r] = <<ToolNotInstalledDialog>>)
    /\ [][\A r \in Runs :
            (~MmdcInstalled /\ pc[r] = "save" /\ pc'[r] # "save") =>
                /\ pc'[r] = "done"
                /\ shown'[r] = <<ToolNotInstalledDialog>>
                /\ fs' = fs]_vars

C1_Witness ==
    \E r \in Runs :
        /\ ~MmdcInstalled
        /\ pc[r] = "done"
        /\ inferCalls[r] = 1
        /\ shown[r] = <<ToolNotInstalledDialog>>

\* C2: in every run the text the renderer is launched on is the text that
\* same run wrote to its transient file.
C2_RendererReadsOwnText ==
    \A r \in Runs : pc[r] = "wait" => rendered[r] = code[r]

\* C3: every finished run that had an API key has shown exactly one result
\* notification; none ends silently.
C3_OneNotificationPerRun ==
    \A r \in Runs :
        (pc[r] = "done" /\ KeyAvailable(r)) => Len(shown[r]) = 1

\* C4: when the inference call raises, the run ends at once with that error
\* reported and nothing else: it has written no transient file and launched
\* no renderer subprocess.
C4_InferenceErrorShortCircuits ==
    \A r \in Runs :
        HasShown(r, InferenceFailedDialog) =>
            /\ pc[r] = "done"
            /\ shown[r] = <<InferenceFailedDialog>>
            /\ inferCalls[r] = 1
            /\ ~wrote[r]
            /\ launches[r] = 0
            /\ proc[r] = None

C4_Witness ==
    \E r \in Runs :
        /\ pc[r] = "done"
        /\ shown[r] = <<InferenceFailedDialog>>
        /\ MmdcInstalled

\* C5: once every run that wrote the transient input file has ended, the
\* transient file no longer exists.
C5_TransientFileRemoved ==
    ((\A r \in Runs : pc[r] \in {"idle", "done"}) /\ (\E r \in Runs : wrote[r]))
        => ~FileExists(fs, mmd_file_path(system))

\* C6 as stated: at most one inference call and one renderer launch per run,
\* and exactly one inference call in a finished run that had an API key.
C6_ExactlyOnceWithKey ==
    \A r \in Runs :
        /\ inferCalls[r] <= 1
        /\ launches[r] <= 1
        /\ (pc[r] = "done" /\ KeyAvailable(r)) => inferCalls[r] = 1

\* C6, amended: in any run the inference call is made at most once and the
\* renderer is launched at most once; a finished run that had an API key and
\* whose client was constructed made the call exactly once; a thread only
\* moves forward through its steps and a finished run does nothing more.
C6_NoRetries ==
    /\ [](\A r \in Runs :
            /\ inferCalls[r] <= 1
            /\ launches[r] <= 1
            /\ (pc[r] = "done" /\ KeyAvailable(r)
                  /\ ~HasShown(r, ClientInitDialog)) => inferCalls[r] = 1
            /\ (pc[r] = "done" /\ HasShown(r, ClientInitDialog))
                  => inferCalls[r] = 0)
    /\ [][\A r \in Runs :
            /\ pc'[r] # pc[r] => Rank(pc'[r]) > Rank(pc[r])
            /\ inferCalls'[r] # inferCalls[r] => pc'[r] # pc[r]
            /\ launches'[r] # launches[r] => pc'[r] # pc[r]
            /\ pc[r] = "done" =>
                 /\ inferCalls'[r] = inferCalls[r]
                 /\ launches'[r] = launches[r]
                 /\ shown'[r] = shown[r]]_vars

C6_Witness ==
    \E r \in Runs :
        /\ pc[r] = "done"
        /\ inferCalls[r] = 1
        /\ launches[r] = 1
        /\ proc[r] # None
        /\ proc[r][1].returncode # 0

\* C7: sanitize is idempotent, sanitize(sanitize(x)) = sanitize(x) for every
\* input text x, and its result holds no fence marker and no surrounding
\* whitespace: removing markers never leaves or creates one.
C7_SanitizeIdempotent ==
    /\ Len(sanOut) >= 1 =>
         /\ sanOut[1] = sanitize(sanIn)
         /\ ~Contains(sanOut[1], Fence)
         /\ strip(sanOut[1]) = sanOut[1]
    /\ Len(sanOut) = 2 => sanOut[2] = sanOut[1]

\* An input in which removing the "mermaid" fence joins backticks into a new
\* fence, which the second replace then removes.
C7_Witness ==
    /\ Len(sanOut) = 2
    /\ sanIn = <<Backtick, Backtick>> \o FenceMermaid \o <<Backtick, "A">>
    /\ sanOut[1] = <<"A">>

\* The output paths a run may report: the output directory joined with
\* flowchart.<format>.
OutputPaths ==
    { os_path_join(system, d, <<"flowchart", ".", f>>) :
        d \in Dirs(system), f \in Formats }

\* C8: when the renderer executable exists and the renderer process exits
\* with code 0, the render step reports success, with the output directory
\* joined with flowchart.<format> as the path.
C8_ExitZeroReportsSuccess ==
    \A r \in Runs :
        (proc[r] # None /\ proc[r][1].returncode = 0) =>
            /\ Len(shown[r]) = 1
            /\ shown[r][1].kind = "showinfo"
            /\ shown[r][1].head = "Flowchart saved as: "
            /\ shown[r][1].arg \in OutputPaths

\* C9: when the renderer process exits with a non-zero code, the render step
\* reports failure, and the diagnostic shown is the text of the renderer's
\* stderr stream.
C9_NonZeroReportsStderr ==
    \A r \in Runs :
        (proc[r] # None /\ proc[r][1].returncode # 0) =>
            shown[r] = << Dialog("showerror", "Error",
                                 "Failed to generate flowchart.\n",
                                 translate_newlines(proc[r][1].stderr)) >>

\* C10: whenever save_and_generate_flowchart returns in a run that started
\* the progress bar, the progress bar is stopped.
C10_ProgressStoppedOnReturn ==
    [][\A r \in Runs :
         (pc[r] # "done" /\ pc'[r] = "done" /\ startedBar[r]) => ~progress']_vars

====
